---- MODULE Spec2Model ----
(***************************************************************************)
(* hocrextract: CustomTreeExtractor.parse, get_html_for_page and the       *)
(* __main__ driver of src/hocrextract.py, as a state machine.              *)
(*                                                                         *)
(* Text is a sequence of one-character strings, so that str(), zfill(),    *)
(* lower(), replace() and the f-strings are computed, not assumed.         *)
(* A float with one decimal is the integer number of tenths (10.6 = 106).  *)
(* A quotient of two numbers is the reduced fraction <<num, den>>.         *)
(***************************************************************************)
EXTENDS Integers, Sequences, FiniteSets, TLC

VARIABLES
    doc,          \* the PDF: the pages PDFPage.create_pages yields, in order
    page_offset,  \* args.page_offset
    pc,           \* where __main__ is
    page_idx,     \* the loop index of the loop pc names (0-based)
    layouts,      \* parse: the local list layouts
    log,          \* the records log.exception wrote (the page_num logged)
    elems,        \* self.elems, keys 1..Len(elems)
    tree,         \* self.tree, keys 1..Len(tree)
    files,        \* the output folder: the files written
    calls         \* history: per source page, how often it was interpreted
                  \* and how often a scale factor was computed from it

vars == <<doc, page_offset, pc, page_idx, layouts, log, elems, tree, files, calls>>

(***************************************************************************)
(* Bounds                                                                  *)
(***************************************************************************)
MaxPages == 3

\* factors tried for the proportional change of raster and page width
MaxFactor == 3

(***************************************************************************)
(* Text                                                                    *)
(***************************************************************************)
Digits == <<"0", "1", "2", "3", "4", "5", "6", "7", "8", "9">>

UpperCase == <<"A", "B", "C", "D", "E", "F", "G", "H", "I", "J", "K", "L", "M",
               "N", "O", "P", "Q", "R", "S", "T", "U", "V", "W", "X", "Y", "Z">>

LowerCase == <<"a", "b", "c", "d", "e", "f", "g", "h", "i", "j", "k", "l", "m",
               "n", "o", "p", "q", "r", "s", "t", "u", "v", "w", "x", "y", "z">>

RECURSIVE Join(_)
Join(parts) ==
    IF parts = << >> THEN << >> ELSE Head(parts) \o Join(Tail(parts))

RECURSIVE NatStr(_)
NatStr(n) ==
    IF n < 10 THEN <<Digits[n + 1]>>
    ELSE NatStr(n \div 10) \o <<Digits[(n % 10) + 1]>>

\* str(i) of an int
IntStr(i) == IF i < 0 THEN <<"-">> \o NatStr(-i) ELSE NatStr(i)

Zeros(k) == [j \in 1..k |-> "0"]

\* a fill that takes no notice of a sign (rjust(width, "0"))
ZFillWidthOnly(s, width) ==
    IF Len(s) >= width THEN s ELSE Zeros(width - Len(s)) \o s

\* s.zfill(width): zeros on the left up to width; a leading sign stays first
\* and counts toward the width
zfill(s, width) ==
    IF Len(s) >= width THEN s
    ELSE IF s # << >> /\ Head(s) \in {"+", "-"}
         THEN <<Head(s)>> \o Zeros(width - Len(s)) \o Tail(s)
         ELSE Zeros(width - Len(s)) \o s

\* c.lower() of one character
LowerChar(c) ==
    IF \E k \in 1..26 : UpperCase[k] = c
    THEN LowerCase[CHOOSE k \in 1..26 : UpperCase[k] = c]
    ELSE c

\* clust.lower() alone
NormalizeKindNoReplace(clust) == [k \in 1..Len(clust) |-> LowerChar(clust[k])]

\* clust.lower().replace(" ", "_")
NormalizeKind(clust) ==
    [k \in 1..Len(clust) |->
        IF LowerChar(clust[k]) = " " THEN "_" ELSE LowerChar(clust[k])]

\* math.floor(x): toward minus infinity
IntFloor(x) == x \div 10

\* int(x) of a float: the fraction is dropped, toward zero
IntOf(x) == IF x >= 0 THEN x \div 10 ELSE -((-x) \div 10)

(***************************************************************************)
(* The input: pages as pdfminer hands them over                            *)
(***************************************************************************)
T_Figure == <<"F", "i", "g", "u", "r", "e">>

T_TextBlock == <<"T", "e", "x", "t", " ", "B", "l", "o", "c", "k">>

T_Table == <<"T", "a", "b", "l", "e">>

\* Path(args.pdf_file).stem
pdf_stem == <<"d", "o", "c">>

LTImage(pw, ph) == [type |-> "LTImage", srcsize |-> <<pw, ph>>]

LTCurve == [type |-> "LTCurve", srcsize |-> <<0, 0>>]

LTFigure(w, objs) == [type |-> "LTFigure", width |-> w, _objs |-> objs]

LTTextBox(w) == [type |-> "LTTextBox", width |-> w, _objs |-> << >>]

\* one item of self.tree[page_num][clust]
Item(pwidth, pheight, top, left, bottom, right) ==
    <<0, pwidth, pheight, top, left, bottom, right>>

\* a Letter page whose only object is the scanned background; one figure
\* region at (top=10.6, left=5.2, bottom=50.9, right=60.1)
PageScan ==
    [overflow |-> FALSE, width |-> 6120, height |-> 7920,
     _objs |-> <<LTFigure(6120, <<LTImage(2550, 3300)>>)>>,
     clusters |-> <<[kind |-> T_Figure,
                     items |-> <<Item(6120, 7920, 106, 52, 509, 601)>>]>>]

\* text before the background, a smaller figure before the full-width one,
\* a curve before the image; two text blocks of one kind
PageMixed ==
    [overflow |-> FALSE, width |-> 5000, height |-> 7005,
     _objs |-> <<LTTextBox(5000),
                 LTFigure(2500, <<LTImage(90, 90)>>),
                 LTFigure(5000, <<LTCurve, LTImage(1250, 1750), LTImage(40, 40)>>)>>,
     clusters |-> <<[kind |-> T_TextBlock,
                     items |-> <<Item(5000, 7005, 5000, 0, 5200, 1000),
                                 Item(5000, 7005, 100, 2000, 300, 3000)>>]>>]

\* a figure that starts left of and above the page, and a table
PageTable ==
    [overflow |-> FALSE, width |-> 3009, height |-> 4000,
     _objs |-> <<LTFigure(3009, <<LTImage(3009, 4000)>>)>>,
     clusters |-> <<[kind |-> T_Figure,
                     items |-> <<Item(3009, 4000, -5, -127, 999, 2004)>>],
                    [kind |-> T_Table,
                     items |-> <<Item(3009, 4000, 1000, 100, 2000, 2900)>>]>>]

\* a page on which nothing was clustered
PageBlank ==
    [overflow |-> FALSE, width |-> 6120, height |-> 7920,
     _objs |-> <<LTFigure(6120, <<LTImage(1275, 1650)>>)>>,
     clusters |-> << >>]

\* interpreter.process_page raises OverflowError on this page
PageOverflow ==
    [overflow |-> TRUE, width |-> 6120, height |-> 7920,
     _objs |-> <<LTFigure(6120, <<LTImage(2550, 3300)>>)>>,
     clusters |-> << >>]

\* born-digital: no figure as wide as the page
PageNoFigure ==
    [overflow |-> FALSE, width |-> 6120, height |-> 7920,
     _objs |-> <<LTTextBox(4000), LTFigure(2000, <<LTImage(400, 400)>>)>>,
     clusters |-> << >>]

\* a full-width figure that holds no image
PageNoImage ==
    [overflow |-> FALSE, width |-> 6120, height |-> 7920,
     _objs |-> <<LTFigure(6120, <<LTCurve>>)>>,
     clusters |-> << >>]

Pages == {PageScan, PageMixed, PageTable, PageBlank,
          PageOverflow, PageNoFigure, PageNoImage}

Docs == UNION {[1..n -> Pages] : n \in 1..MaxPages}

\* -p: negative, default, and one that takes the index past four digits
Offsets == {-2, 0, 9998}

(***************************************************************************)
(* parse                                                                   *)
(***************************************************************************)
StopIteration == [type |-> "StopIteration"]

RECURSIVE GCD(_, _)
GCD(a, b) == IF b = 0 THEN a ELSE GCD(b, a % b)

\* a / b, b > 0
Quotient(a, b) == <<a \div GCD(a, b), b \div GCD(a, b)>>

\* next(x for x in layout._objs if isinstance(x, LTFigure) and x.width == layout.width)
RECURSIVE next_figure(_, _)
next_figure(objs, width) ==
    IF objs = << >> THEN StopIteration
    ELSE IF Head(objs).type = "LTFigure" /\ Head(objs).width = width
         THEN Head(objs)
         ELSE next_figure(Tail(objs), width)

\* next(x for x in bg_figure._objs if isinstance(x, LTImage))
RECURSIVE next_image(_)
next_image(objs) ==
    IF objs = << >> THEN StopIteration
    ELSE IF Head(objs).type = "LTImage" THEN Head(objs)
         ELSE next_image(Tail(objs))

bg_figure(layout) == next_figure(layout._objs, layout.width)

bg_image(layout) ==
    IF bg_figure(layout) = StopIteration THEN StopIteration
    ELSE next_image(bg_figure(layout)._objs)

\* the ratio of the heights: srcsize[1] / layout.height
ScaleFromHeight(image, layout) == Quotient(image.srcsize[2] * 10, layout.height)

\* bg_image.srcsize[0] / layout.width; the width is in tenths
scale_factor(image, layout) == Quotient(image.srcsize[1] * 10, layout.width)

\* device.get_result(): the page's layout; src is the page's place in the PDF
Layout(src) ==
    [src |-> src, width |-> doc[src].width, height |-> doc[src].height,
     _objs |-> doc[src]._objs]

\* the statement after the loop the program is leaving
AfterPages(ls) == IF ls = << >> THEN "get_tree_structure" ELSE "normalize"

AfterNormalize(k) == IF k = Len(layouts) THEN "get_tree_structure" ELSE "normalize"

Init ==
    /\ doc \in Docs
    /\ page_offset \in Offsets
    /\ pc = "process_page"
    /\ page_idx = 0
    /\ layouts = << >>
    /\ log = << >>
    /\ elems = << >>
    /\ tree = << >>
    /\ files = {}
    /\ calls = [p \in 1..Len(doc) |-> [process_page |-> 0, scale_factor |-> 0]]

\* the except clause without its continue: the failed page's layout is kept
ProcessPageOverflowKeepsLayout ==
    /\ pc = "process_page"
    /\ page_idx < Len(doc)
    /\ doc[page_idx + 1].overflow
    /\ log' = Append(log, page_idx)
    /\ layouts' = Append(layouts, Layout(page_idx + 1))
    /\ calls' = [calls EXCEPT ![page_idx + 1].process_page = @ + 1]
    /\ page_idx' = IF page_idx + 1 = Len(doc) THEN 0 ELSE page_idx + 1
    /\ pc' = IF page_idx + 1 = Len(doc) THEN AfterPages(layouts') ELSE pc
    /\ UNCHANGED <<doc, page_offset, elems, tree, files>>

\* lines 42-49: process_page raises OverflowError; logged, continue
ProcessPageOverflow ==
    /\ pc = "process_page"
    /\ page_idx < Len(doc)
    /\ doc[page_idx + 1].overflow
    /\ log' = Append(log, page_idx)
    /\ calls' = [calls EXCEPT ![page_idx + 1].process_page = @ + 1]
    /\ page_idx' = IF page_idx + 1 = Len(doc) THEN 0 ELSE page_idx + 1
    /\ pc' = IF page_idx + 1 = Len(doc) THEN AfterPages(layouts) ELSE pc
    /\ UNCHANGED <<doc, page_offset, layouts, elems, tree, files>>

\* lines 42-51: the page is interpreted and its layout kept
ProcessPage ==
    /\ pc = "process_page"
    /\ page_idx < Len(doc)
    /\ ~doc[page_idx + 1].overflow
    /\ layouts' = Append(layouts, Layout(page_idx + 1))
    /\ calls' = [calls EXCEPT ![page_idx + 1].process_page = @ + 1]
    /\ page_idx' = IF page_idx + 1 = Len(doc) THEN 0 ELSE page_idx + 1
    /\ pc' = IF page_idx + 1 = Len(doc) THEN AfterPages(layouts') ELSE pc
    /\ UNCHANGED <<doc, page_offset, log, elems, tree, files>>

\* lines 53-60: page_num = index in layouts + 1
Normalize ==
    /\ pc = "normalize"
    /\ page_idx < Len(layouts)
    /\ LET layout == layouts[page_idx + 1]
           page_num == page_idx + 1
       IN /\ bg_image(layout) # StopIteration
          /\ elems' = Append(elems,
                 [layout |-> layout,
                  scale_factor |-> scale_factor(bg_image(layout), layout)])
          /\ calls' = [calls EXCEPT ![layout.src].scale_factor = @ + 1]
          /\ pc' = AfterNormalize(page_num)
          /\ page_idx' = IF page_num = Len(layouts) THEN 0 ELSE page_num
    /\ UNCHANGED <<doc, page_offset, layouts, log, tree, files>>

\* lines 55-56: next() finds nothing; StopIteration leaves parse and __main__
NormalizeStopIteration ==
    /\ pc = "normalize"
    /\ page_idx < Len(layouts)
    /\ bg_image(layouts[page_idx + 1]) = StopIteration
    /\ pc' = "traceback"
    /\ UNCHANGED <<doc, page_offset, page_idx, layouts, log, elems, tree, files, calls>>

(***************************************************************************)
(* get_tree_structure (pdftotree): fills self.tree for every key of        *)
(* self.elems with the regions clustered on that page's layout             *)
(***************************************************************************)
GetTreeStructure ==
    /\ pc = "get_tree_structure"
    /\ tree' = [k \in 1..Len(elems) |-> doc[elems[k].layout.src].clusters]
    /\ pc' = IF elems = << >> THEN "exit" ELSE "write"
    /\ page_idx' = 0
    /\ UNCHANGED <<doc, page_offset, layouts, log, elems, files, calls>>

(***************************************************************************)
(* get_html_for_page                                                       *)
(***************************************************************************)
T_bbox == <<"b", "b", "o", "x">>

T_ppageno == <<"p", "p", "a", "g", "e", "n", "o">>

T_suffix == <<"_", "H", "O", "C", "R", ".", "s", "h", "t", "m", "l">>

\* lines 84-89: the boxes of the items of one cluster
boxes_of_items(clust, items) ==
    [k \in 1..Len(items) |->
        <<NormalizeKind(clust), items[k][4], items[k][5], items[k][6], items[k][7]>>]

\* lines 82-89: boxes, in the order the cluster map and its lists are walked
RECURSIVE collect_boxes(_)
collect_boxes(clusters) ==
    IF clusters = << >> THEN << >>
    ELSE boxes_of_items(Head(clusters).kind, Head(clusters).items)
         \o collect_boxes(Tail(clusters))

\* the title with the page's own index: ppageno {page_num - 1}
page_title_numbered(page_num, width, height) ==
    Join(<<T_bbox, <<" ", "0", " ", "0", " ">>, IntStr(IntOf(width)), <<" ">>,
           IntStr(IntOf(height)), <<";", " ">>, T_ppageno, <<" ">>,
           IntStr(page_num - 1)>>)

\* lines 93-98: f"bbox 0 0 {width} {height}; ppageno 0"
page_title(page_num, width, height) ==
    Join(<<T_bbox, <<" ", "0", " ", "0", " ">>, IntStr(IntOf(width)), <<" ">>,
           IntStr(IntOf(height)), <<";", " ">>, T_ppageno, <<" ", "0">>>>)

\* lines 110-113: top, left, bottom, right = [int(i) for i in box[1:]];
\* f"bbox {left} {top} {right} {bottom}"
figure_title(box) ==
    Join(<<T_bbox, <<" ">>, IntStr(IntOf(box[3])), <<" ">>, IntStr(IntOf(box[2])),
           <<" ">>, IntStr(IntOf(box[5])), <<" ">>, IntStr(IntOf(box[4]))>>)

\* lines 102-116: the element appended for one box. What get_html_table and
\* get_html_others (pdftotree) build is kept as the call made.
element(box, page_num) ==
    IF box[1] = NormalizeKind(T_Table)
    THEN [tag |-> "get_html_table", title |-> << >>,
          args |-> <<SubSeq(box, 2, 5), page_num>>]
    ELSE IF box[1] = NormalizeKind(T_Figure)
    THEN [tag |-> "figure", title |-> figure_title(box), args |-> << >>]
    ELSE [tag |-> "get_html_others", title |-> << >>,
          args |-> <<box[1], SubSeq(box, 2, 5), page_num>>]

\* the orders a sort can leave n boxes in
Orders(n) == {f \in [1..n -> 1..n] : \A a, b \in 1..n : f[a] = f[b] => a = b}

\* line 100: boxes.sort(key=cmp_to_key(column_order)). The comparator is
\* pdftotree's; the order it gives is `order`, one of Orders(Len(boxes)).
sorted(boxes, order) == [k \in 1..Len(boxes) |-> boxes[order[k]]]

\* lines 62-117; boxes is the local list when the method returns
get_html_for_page(page_num, order) ==
    LET boxes == sorted(collect_boxes(tree[page_num]), order)
    IN [id |-> "page_1",
        title |-> page_title(page_num, elems[page_num].layout.width,
                             elems[page_num].layout.height),
        children |-> [k \in 1..Len(boxes) |-> element(boxes[k], page_num)],
        boxes |-> boxes]

(***************************************************************************)
(* __main__                                                                *)
(***************************************************************************)
\* lines 154-157: "{}-{}_HOCR.shtml".format(stem, str(page_num + offset).zfill(4))
output_name(page_num, offset) ==
    Join(<<pdf_stem, <<"-">>, zfill(IntStr(page_num + offset), 4), T_suffix>>)

\* lines 152-159: one round of the loop over extractor.get_elems().keys()
WritePage ==
    /\ pc = "write"
    /\ page_idx < Len(elems)
    /\ LET page_num == page_idx + 1
       IN /\ \E order \in Orders(Len(collect_boxes(tree[page_num]))) :
                files' = {f \in files : f.path # output_name(page_num, page_offset)}
                         \cup {[path |-> output_name(page_num, page_offset),
                                page_num |-> page_num,
                                page_html |-> get_html_for_page(page_num, order)]}
          /\ pc' = IF page_num = Len(elems) THEN "exit" ELSE "write"
          /\ page_idx' = IF page_num = Len(elems) THEN 0 ELSE page_num
    /\ UNCHANGED <<doc, page_offset, layouts, log, elems, tree, calls>>

Next ==
    \/ ProcessPageOverflow
    \/ ProcessPage
    \/ Normalize
    \/ NormalizeStopIteration
    \/ GetTreeStructure
    \/ WritePage

Spec == Init /\ [][Next]_vars

\* line 144: the run without -p, page_offset at its default
InitDefaultOffset == Init /\ page_offset = 0

\* the interpreter runs the program to its end: no step waits on anything
FairSpec == InitDefaultOffset /\ [][Next]_vars /\ WF_vars(Next)

(***************************************************************************)
(* Reading the output back                                                 *)
(***************************************************************************)
IsDigit(c) == \E d \in 1..10 : Digits[d] = c

DigitValue(c) == (CHOOSE d \in 1..10 : Digits[d] = c) - 1

RECURSIVE ParseNat(_)
ParseNat(s) ==
    IF s = << >> THEN 0
    ELSE 10 * ParseNat(SubSeq(s, 1, Len(s) - 1)) + DigitValue(s[Len(s)])

\* the texts int() reads: an optional "-" and then digits only
IsIntText(s) ==
    /\ s # << >>
    /\ LET body == IF Head(s) = "-" THEN Tail(s) ELSE s
       IN body # << >> /\ \A k \in 1..Len(body) : IsDigit(body[k])

ParseInt(s) == IF Head(s) = "-" THEN -ParseNat(Tail(s)) ELSE ParseNat(s)

\* s.split(" ")
RECURSIVE SplitFrom(_, _)
SplitFrom(s, word) ==
    IF s = << >> THEN <<word>>
    ELSE IF Head(s) = " " THEN <<word>> \o SplitFrom(Tail(s), << >>)
         ELSE SplitFrom(Tail(s), Append(word, Head(s)))

Split(s) == SplitFrom(s, << >>)

Abs(x) == IF x < 0 THEN -x ELSE x

\* the whole number between 0 and x/10 that is nearest to x/10
Truncated(x) ==
    CHOOSE n \in -(Abs(x) \div 10 + 1)..(Abs(x) \div 10 + 1) :
        /\ 10 * Abs(n) <= Abs(x)
        /\ Abs(x) < 10 * (Abs(n) + 1)
        /\ (n # 0 => ((n < 0) <=> (x < 0)))

(***************************************************************************)
(* The document, seen from outside                                         *)
(***************************************************************************)
PageNumbers == 1..Len(doc)

\* the pages whose interpretation raises OverflowError
Failed == {p \in PageNumbers : doc[p].overflow}

\* the page holds a figure as wide as the page with an image in it
HasBackgroundRaster(p) ==
    \E i \in DOMAIN doc[p]._objs :
        /\ doc[p]._objs[i].type = "LTFigure"
        /\ doc[p]._objs[i].width = doc[p].width
        /\ \E j \in DOMAIN doc[p]._objs[i]._objs :
               doc[p]._objs[i]._objs[j].type = "LTImage"

\* the pixel width of that raster: the first image of the first such figure
RasterWidth(p) ==
    LET objs == doc[p]._objs
        figs == {i \in DOMAIN objs : objs[i].type = "LTFigure"
                                     /\ objs[i].width = doc[p].width}
        fig  == objs[CHOOSE i \in figs : \A j \in figs : i <= j]
        imgs == {i \in DOMAIN fig._objs : fig._objs[i].type = "LTImage"}
    IN fig._objs[CHOOSE i \in imgs : \A j \in imgs : i <= j].srcsize[1]

\* the page of the PDF whose layout a written file was made from
SourcePage(f) == elems[f.page_num].layout.src

Finished == pc \in {"exit", "traceback"}

\* the part of a file name between "stem-" and "_HOCR.shtml"
NameIndexText(path) == SubSeq(path, Len(pdf_stem) + 2, Len(path) - Len(T_suffix))

HasNameFrame(path) ==
    /\ Len(path) >= Len(pdf_stem) + 1 + Len(T_suffix)
    /\ SubSeq(path, 1, Len(pdf_stem) + 1) = pdf_stem \o <<"-">>
    /\ SubSeq(path, Len(path) - Len(T_suffix) + 1, Len(path)) = T_suffix

DigitCount(s) == Cardinality({k \in 1..Len(s) : IsDigit(s[k])})

(***************************************************************************)
(* Claims                                                                  *)
(***************************************************************************)

\* C1: when the interpretation of some pages raises OverflowError, every
\* file written is named with the original 1-based index in the PDF of the
\* page it holds, plus the offset, and no file carries the index of a page
\* that failed: pages after a skipped page are not renumbered.
C1_FilesKeepSourceIndex ==
    pc = "exit" =>
        /\ \A f \in files : f.path = output_name(SourcePage(f), page_offset)
        /\ \A p \in Failed : \A f \in files : f.path # output_name(p, page_offset)

\* what C2 says of the run that has ended
C2_AtExit ==
    pc = "exit" =>
        /\ Len(log) = Cardinality(Failed)
        /\ {log[k] + 1 : k \in DOMAIN log} = Failed
        /\ \A a, b \in DOMAIN log : a < b => log[a] < log[b]
        /\ \A p \in PageNumbers : calls[p].process_page = 1
        /\ Cardinality(files) = Len(doc) - Cardinality(Failed)
        /\ \A f \in files : SourcePage(f) \notin Failed
        /\ \A p \in PageNumbers \ Failed :
               Cardinality({f \in files : SourcePage(f) = p}) = 1

\* C2: with a set F of pages raising OverflowError and every other page
\* having a background raster, the run logs one record per page of F, in
\* page order, interprets every page exactly once (no retry, and the pages
\* after a failure are still interpreted), and ends, with exactly n - |F|
\* files, one per page outside F and none made from a page of F.
C2_OverflowPagesSkipped ==
    /\ [](C2_AtExit /\ \A p \in PageNumbers : calls[p].process_page <= 1)
    /\ (\A p \in PageNumbers \ Failed : HasBackgroundRaster(p)) => <>(pc = "exit")

C2_Witness ==
    /\ pc = "exit"
    /\ Len(doc) = 3
    /\ Failed = {2}
    /\ Cardinality(files) = 2

\* C3: when exactly one page has no full-width background raster, the
\* failure stays with that page: every other page that was interpreted and
\* has a background raster has its file once the run is over.
C3_MissingRasterConfined ==
    ( /\ Finished
      /\ Cardinality({p \in PageNumbers : ~HasBackgroundRaster(p)}) = 1 )
    => \A p \in PageNumbers \ Failed :
           HasBackgroundRaster(p) => \E f \in files : SourcePage(f) = p

\* C4 as claimed: the page-order index in the page container's title
\* depends on the page, so two pages of one document carry different ones.
C4_IndexDiffersByPage ==
    \A f, g \in files :
        f.page_num # g.page_num =>
            Split(f.page_html.title)[7] # Split(g.page_html.title)[7]

\* C4, amended: the page container's title is "bbox 0 0 W H; ppageno 0" with
\* W and H the page's layout width and height cut to whole numbers, and the
\* page-order index is 0 whatever page is serialized.
C4_PageTitle ==
    \A f \in files :
        LET words == Split(f.page_html.title)
            layout == elems[f.page_num].layout
        IN /\ Len(words) = 7
           /\ words[1] = T_bbox
           /\ words[2] = <<"0">> /\ words[3] = <<"0">>
           /\ IsIntText(words[4]) /\ ParseInt(words[4]) = Truncated(layout.width)
           /\ words[5] = IntStr(Truncated(layout.height)) \o <<";">>
           /\ words[6] = T_ppageno
           /\ IsIntText(words[7]) /\ ParseInt(words[7]) = 0

C4_Witness ==
    \E f, g \in files :
        /\ f.page_num = 1 /\ g.page_num = 2
        /\ f.page_html.title # g.page_html.title

\* C7: the scale factor handed to normalize_pdf for a page is exactly the
\* pixel width P of that page's background raster over that page's layout
\* width W; taking c*P and c*W instead gives the same factor; and it is
\* computed once per page, for every page before the first page is written.
C7_ScaleFactor ==
    /\ \A k \in DOMAIN elems :
           LET p == elems[k].layout.src
               s == elems[k].scale_factor
           IN /\ HasBackgroundRaster(p)
              /\ s[2] > 0
              /\ s[1] * doc[p].width = s[2] * 10 * RasterWidth(p)
              /\ \A c \in 1..MaxFactor :
                     scale_factor(LTImage(c * RasterWidth(p), 1),
                                  [elems[k].layout EXCEPT !.width = c * @]) = s
              /\ calls[p].scale_factor = 1
    /\ \A p \in PageNumbers : calls[p].scale_factor <= 1
    /\ files # {} => \A k \in DOMAIN layouts : calls[layouts[k].src].scale_factor = 1
    /\ pc \in {"process_page", "normalize"} => files = {}

\* a 50.0 wide page over a 125 pixel wide raster: 5/2, and a file is written
C7_Witness ==
    /\ files # {}
    /\ \E k \in DOMAIN elems :
           /\ elems[k].layout.width = 5000
           /\ elems[k].scale_factor = <<5, 2>>
           /\ elems[k].layout.src # k

\* C8: the title of a figure element is "bbox L T R B", in the order left,
\* top, right, bottom, each the coordinate cut to a whole number toward
\* zero; read back, the four words are those four integers.
\* (top=10.6, left=5.2, bottom=50.9, right=60.1) gives "bbox 5 10 60 50".
C8_FigureTitle ==
    \A f \in files : \A k \in DOMAIN f.page_html.boxes :
        LET box == f.page_html.boxes[k]
            title == f.page_html.children[k].title
            words == Split(title)
        IN box[1] = <<"f", "i", "g", "u", "r", "e">> =>
            /\ f.page_html.children[k].tag = "figure"
            /\ Len(words) = 5
            /\ words[1] = T_bbox
            /\ \A j \in 2..5 : /\ IsIntText(words[j])
                               /\ IntStr(ParseInt(words[j])) = words[j]
            /\ <<ParseInt(words[2]), ParseInt(words[3]),
                 ParseInt(words[4]), ParseInt(words[5])>>
               = <<Truncated(box[3]), Truncated(box[2]),
                   Truncated(box[5]), Truncated(box[4])>>
            /\ SubSeq(box, 2, 5) = <<106, 52, 509, 601>> =>
                   title = <<"b", "b", "o", "x", " ", "5", " ", "1", "0", " ",
                             "6", "0", " ", "5", "0">>

\* both figures are written: the one of the example and the one whose top
\* and left are negative
C8_Witness ==
    /\ \E f \in files : \E k \in DOMAIN f.page_html.boxes :
           /\ f.page_html.boxes[k] = <<<<"f", "i", "g", "u", "r", "e">>, 106, 52, 509, 601>>
           /\ f.page_html.children[k].tag = "figure"
    /\ \E f \in files : \E k \in DOMAIN f.page_html.boxes :
           /\ f.page_html.boxes[k] = <<<<"f", "i", "g", "u", "r", "e">>, -5, -127, 999, 2004>>
           /\ f.page_html.children[k].tag = "figure"

\* the frame of a file name, and no two pages of a run sharing a path
NamesFramedAndDistinct ==
    /\ \A f \in files :
           /\ HasNameFrame(f.path)
           /\ IsIntText(NameIndexText(f.path))
           /\ ParseInt(NameIndexText(f.path)) = f.page_num + page_offset
    /\ \A f, g \in files : f.page_num # g.page_num => f.path # g.path
    /\ pc = "write" => Cardinality(files) = page_idx
    /\ pc = "exit" => Cardinality(files) = Len(elems)

\* C9 as claimed: the file name is "{stem}-{D}_HOCR.shtml" with D the page
\* index plus the offset, zero-padded to 4 digits, for every integer offset;
\* distinct page indexes never share a path.
C9_FourDigits ==
    /\ NamesFramedAndDistinct
    /\ \A f \in files :
           LET d == NameIndexText(f.path)
           IN /\ DigitCount(d) >= 4
              /\ DigitCount(d) > 4 => d = IntStr(f.page_num + page_offset)

\* C9, amended: D is the decimal text of page index + offset, filled with
\* zeros to a width of 4 characters, a minus sign staying first and counting
\* toward the width: 4 digits or more when the sum is not negative, "-" and
\* 3 digits or more when it is (-1 gives "-001"); distinct page indexes
\* never share a path.
C9_OutputName ==
    /\ NamesFramedAndDistinct
    /\ \A f \in files :
           LET d == NameIndexText(f.path)
               n == f.page_num + page_offset
           IN /\ Len(d) >= 4
              /\ Len(d) > 4 => d = IntStr(n)
              /\ n >= 0 => DigitCount(d) = Len(d)
              /\ n < 0 => Head(d) = "-" /\ DigitCount(d) = Len(d) - 1

\* three files of one run: "-001", "0000" and "0001"
C9_Witness ==
    /\ page_offset = -2
    /\ \E f, g, h \in files :
           /\ f.page_num = 1 /\ NameIndexText(f.path) = <<"-", "0", "0", "1">>
           /\ g.page_num = 2 /\ NameIndexText(g.path) = <<"0", "0", "0", "0">>
           /\ h.page_num = 3 /\ NameIndexText(h.path) = <<"0", "0", "0", "1">>

\* the kind labels the upstream clustering uses, as they must appear
ExpectedKind(kind) ==
    CASE kind = T_TextBlock -> <<"t", "e", "x", "t", "_", "b", "l", "o", "c", "k">>
      [] kind = T_Figure -> <<"f", "i", "g", "u", "r", "e">>
      [] kind = T_Table -> <<"t", "a", "b", "l", "e">>

\* C10: the boxes of a page are, item for item, the items of its cluster
\* map: one box [kind', top, left, bottom, right] per item of every kind,
\* kind' the label in lower case with "_" for every space ("Text Block"
\* gives "text_block"); normalizing kind' again changes nothing; an empty
\* map gives no box; the page width and height of an item are not in it.
C10_RegionCollector ==
    \A f \in files :
        LET boxes == f.page_html.boxes
            map == tree[f.page_num]
            Places == UNION {{<<c, j>> : j \in DOMAIN map[c].items} : c \in DOMAIN map}
            BoxOf(q) == <<ExpectedKind(map[q[1]].kind),
                          map[q[1]].items[q[2]][4], map[q[1]].items[q[2]][5],
                          map[q[1]].items[q[2]][6], map[q[1]].items[q[2]][7]>>
        IN /\ Len(boxes) = Cardinality(Places)
           /\ \A q \in Places :
                  Cardinality({k \in DOMAIN boxes : boxes[k] = BoxOf(q)})
                  = Cardinality({r \in Places : BoxOf(r) = BoxOf(q)})
           /\ \A k \in DOMAIN boxes :
                  /\ Len(boxes[k]) = 5
                  /\ NormalizeKind(boxes[k][1]) = boxes[k][1]
           /\ map = << >> => boxes = << >>
           /\ collect_boxes(map) = [k \in DOMAIN collect_boxes(map) |->
                  BoxOf(CHOOSE q \in Places :
                      Cardinality({r \in Places : r[1] < q[1]
                                       \/ (r[1] = q[1] /\ r[2] <= q[2])}) = k)]

\* a page with two "Text Block" items and a page with an empty map
C10_Witness ==
    /\ \E f \in files :
           /\ Len(f.page_html.boxes) = 2
           /\ \A k \in 1..2 : f.page_html.boxes[k][1]
                  = <<"t", "e", "x", "t", "_", "b", "l", "o", "c", "k">>
    /\ \E f \in files : tree[f.page_num] = << >> /\ f.page_html.boxes = << >>

====
